---- MODULE Spec2Model ----
(***************************************************************************)
(* A model of the load balancer of joshtyf/goloadbalancer: the Server      *)
(* (backend pool, health map, stopped flag, balancing algorithm), its      *)
(* Listeners (backends) and the goroutines that run against it: request    *)
(* handlers (Server.handle), the probe loop (Server.Start), the probe      *)
(* goroutines it spawns (Server.healthcheck), callers of Server.Stop and   *)
(* of Server.AddListener.                                                  *)
(*                                                                         *)
(* Listener positions are 1-based here (Go's listeners[k] is position      *)
(* k+1); the round-robin cursor keeps Go's 0-based value.                  *)
(***************************************************************************)
EXTENDS Integers, Sequences, FiniteSets

VARIABLES
    listeners,            \* Server.listeners: the slice of *Listener
    unhealthyListeners,   \* Server.unhealthyListeners: map[string]bool
    stopped,              \* Server.stopped: atomic.Bool
    balancingAlgorithm,   \* Server.balancingAlgorithm
    rr_i,                 \* the variable i captured by RoundRobin's closure
    crash,                \* "none", or the unrecovered panic that ended the process
    hpc,                  \* Server.handle: position of each request goroutine
    hsnap,                \* RoundRobin: len of the slice this call was given (0 outside a call)
    hreg,                 \* RoundRobin: the value of i this call read / computed (0 outside)
    hlistener,            \* Server.handle: local variable listener (0 = nil)
    hresult,              \* Server.handle: what the request ended with
    hattempts,            \* Server.handle: calls of pickListener made by this request
    startPc,              \* Server.Start: position of the probe loop
    startResult,          \* Server.Start: its return value
    probes,               \* probe goroutines spawned and not yet run, by listener
    probeOps,             \* probe goroutines inside their map statement: <<listener, operation>>
    stopPc,               \* Server.Stop: position of each caller
    stopResult,           \* Server.Stop: its return value
    stopLate,             \* history: an earlier call of Stop had returned when this one began
    trace                 \* sequential policy calls: the positions returned so far

vars == <<listeners, unhealthyListeners, stopped, balancingAlgorithm, rr_i, crash,
          hpc, hsnap, hreg, hlistener, hresult, hattempts,
          startPc, startResult, probes, stopPc, stopResult, stopLate, trace, probeOps>>

hvars == <<hpc, hsnap, hreg, hlistener, hresult, hattempts>>
startVars == <<startPc, startResult>>
stopVars == <<stopPc, stopResult, stopLate>>

(***************************************************************************)
(* Bounds of the model.                                                    *)
(***************************************************************************)
MaxListeners == 2
MaxSeqListeners == 3
MaxCalls == 6
MaxAttempts == 3
Handlers == {"h1", "h2"}
Stoppers == {"s1", "s2"}

(***************************************************************************)
(* Go values.                                                              *)
(***************************************************************************)
\* A *sync.WaitGroup: the nil pointer, or a pointer to a counter.
NilWG == [alloc |-> FALSE, n |-> 0]

\* A map[string]bool: the nil map, or an allocated map (the keys mapped to true).
NilMap == [alloc |-> FALSE, keys |-> {}]

\* m[k] of a map[string]bool: a nil map reads as the zero value.
MapRead(m, k) == m.alloc /\ k \in m.keys

\* m[k] = true panics on a nil map ("assignment to entry in nil map").
MapAssignPanics(m) == ~m.alloc

MapAssign(m, k) == [m EXCEPT !.keys = @ \cup {k}]

\* delete(m, k) is a no-op on a nil map.
MapDelete(m, k) == IF m.alloc THEN [m EXCEPT !.keys = @ \ {k}] ELSE m

Algorithms == {"Random", "RoundRobin", "WeightedRoundRobin"}

(***************************************************************************)
(* Listener construction.                                                  *)
(***************************************************************************)
MaxWeight == 100

\* WithWeight clamps the weight to [0, 100].
WithWeight(weight) ==
    IF weight < 0 THEN 0 ELSE IF weight > MaxWeight THEN MaxWeight ELSE weight

\* The options of a NewListener call: whether WithWeight(weight) and
\* WithListenerHealthCheck(...) are among them.
Config(hasWeight, weight, hc) == [hasWeight |-> hasWeight, weight |-> weight, hc |-> hc]

\* NewListener: a fresh id, weight 1, then the options applied.  The struct
\* literal sets no wg, so the field is the nil pointer.
NewListener(id, cfg) ==
    [id |-> id,
     weight |-> IF cfg.hasWeight THEN WithWeight(cfg.weight) ELSE 1,
     healthCheckConfig |-> cfg.hc,
     wg |-> NilWG]

\* The options AddListener's callers use in the concurrent specification.
AddConfigs == {Config(FALSE, 0, TRUE), Config(TRUE, 0, FALSE)}

(***************************************************************************)
(* The balancing algorithms.                                               *)
(***************************************************************************)
\* Random: listeners[rand.Intn(len(listeners))]; rand.Intn(0) panics.
RandomPanics(ls) == Len(ls) = 0

RandomChoices(ls) == 1..Len(ls)

\* RoundRobin: i = (i + 1) % len(listeners); % 0 is a run-time panic.
RRPanics(n) == n = 0

\* RoundRobin with a cursor that is reduced but never advanced.
RRNextStuck(i, n) == i % n

RRNext(i, n) == (i + 1) % n

\* The inner loop with j <= listener.weight for its condition.
WeightCopiesOffByOne(k, weight) == [j \in 1..(weight + 1) |-> k]

\* WeightedRoundRobin's inner loop: listener k is appended weight times.
WeightCopies(k, weight) == [j \in 1..weight |-> k]

RECURSIVE FlatFrom(_, _)
FlatFrom(ls, k) ==
    IF k > Len(ls) THEN <<>>
    ELSE WeightCopies(k, ls[k].weight) \o FlatFrom(ls, k + 1)

\* WeightedRoundRobin's flatSlice for the listeners it is given.
FlatSlice(ls) == FlatFrom(ls, 1)

\* rand.Intn(len(flatSlice)) panics when flatSlice is empty.
WRRPanics(ls) == Len(FlatSlice(ls)) = 0

\* listeners[flatSlice[rand.Intn(len(flatSlice))]]: what the draw can return.
WRRChoices(ls) == {FlatSlice(ls)[k] : k \in 1..Len(FlatSlice(ls))}

\* pickListener without its test of len(listeners).
PickListenerNeverFails(ls) == FALSE

\* pickListener fails on an empty slice before the algorithm is called.
PickListenerFails(ls) == Len(ls) = 0

(***************************************************************************)
(* Initial state: NewServer(addr, WithBalancingAlgorithm(b)) has returned. *)
(* NewServer sets only ip and balancingAlgorithm: unhealthyListeners is    *)
(* the nil map, stopped false, listeners the nil slice; RoundRobin() has   *)
(* returned a closure over i = 0.                                          *)
(***************************************************************************)
NewServer(b) ==
    /\ unhealthyListeners = NilMap
    /\ stopped = FALSE
    /\ balancingAlgorithm = b
    /\ rr_i = 0

Idle ==
    /\ crash = "none"
    /\ hpc = [h \in Handlers |-> "idle"]
    /\ hsnap = [h \in Handlers |-> 0]
    /\ hreg = [h \in Handlers |-> 0]
    /\ hlistener = [h \in Handlers |-> 0]
    /\ hresult = [h \in Handlers |-> "none"]
    /\ hattempts = [h \in Handlers |-> 0]
    /\ startPc = "idle"
    /\ startResult = "none"
    /\ probes = {}
    /\ probeOps = {}
    /\ stopPc = [s \in Stoppers |-> "idle"]
    /\ stopResult = [s \in Stoppers |-> "none"]
    /\ stopLate = [s \in Stoppers |-> FALSE]
    /\ trace = <<>>

Init ==
    /\ \E b \in Algorithms : NewServer(b)
    /\ listeners = <<>>
    /\ Idle

(***************************************************************************)
(* Server.AddListener                                                      *)
(***************************************************************************)
AddListener(cfg) ==
    /\ crash = "none"
    /\ Len(listeners) < MaxListeners
    /\ listeners' = Append(listeners, NewListener(Len(listeners) + 1, cfg))
    /\ UNCHANGED <<unhealthyListeners, stopped, balancingAlgorithm, rr_i, crash,
                   hvars, startVars, probes, stopVars, trace, probeOps>>

(***************************************************************************)
(* Server.handle, one request goroutine h.  net/http recovers a panic of   *)
(* the handler, so a panic here ends the request, not the process.         *)
(***************************************************************************)
Finish(h, result) ==
    /\ hpc' = [hpc EXCEPT ![h] = "done"]
    /\ hresult' = [hresult EXCEPT ![h] = result]

\* Server.handle without its test of the stopped flag.
HandleStartNoCheck(h) ==
    /\ crash = "none"
    /\ hpc[h] = "idle"
    /\ hpc' = [hpc EXCEPT ![h] = "loop"]
    /\ UNCHANGED <<listeners, unhealthyListeners, stopped, balancingAlgorithm, rr_i,
                   crash, hsnap, hreg, hlistener, hresult, hattempts,
                   startVars, probes, stopVars, trace, probeOps>>

\* if s.stopped.Load() { http.Error(..., 503); return }
HandleStart(h) ==
    /\ crash = "none"
    /\ hpc[h] = "idle"
    /\ IF stopped
       THEN Finish(h, "unavailable: server is stopped")
       ELSE /\ hpc' = [hpc EXCEPT ![h] = "loop"]
            /\ UNCHANGED hresult
    /\ UNCHANGED <<listeners, unhealthyListeners, stopped, balancingAlgorithm, rr_i,
                   crash, hsnap, hreg, hlistener, hattempts,
                   startVars, probes, stopVars, trace, probeOps>>

\* The loop condition: listener == nil || s.unhealthyListeners[listener.id.String()]
LoopAgain(h) ==
    \/ hlistener[h] = 0
    \/ MapRead(unhealthyListeners, listeners[hlistener[h]].id)

HandleLoop(h) ==
    /\ crash = "none"
    /\ hpc[h] = "loop"
    /\ hpc' = [hpc EXCEPT ![h] = IF LoopAgain(h) THEN "pick" ELSE "forward"]
    /\ UNCHANGED <<listeners, unhealthyListeners, stopped, balancingAlgorithm, rr_i,
                   crash, hsnap, hreg, hlistener, hresult, hattempts,
                   startVars, probes, stopVars, trace, probeOps>>

\* selected, err := s.balancingAlgorithm.pickListener(s.listeners): the slice is
\* read, pickListener checks it for emptiness and calls the algorithm.  Random
\* and WeightedRoundRobin touch no shared state and return here; RoundRobin
\* goes on to read, write and read again its captured i.
HandlePick(h) ==
    /\ crash = "none"
    /\ hpc[h] = "pick"
    /\ hattempts' = [hattempts EXCEPT ![h] = IF @ < MaxAttempts THEN @ + 1 ELSE @]
    /\ IF PickListenerFails(listeners)
       THEN /\ Finish(h, "unavailable: no listeners available")
            /\ UNCHANGED <<hlistener, hsnap>>
       ELSE CASE balancingAlgorithm = "Random" ->
                   IF RandomPanics(listeners)
                   THEN /\ Finish(h, "panic: rand.Intn(0)")
                        /\ UNCHANGED <<hlistener, hsnap>>
                   ELSE /\ \E k \in RandomChoices(listeners) :
                               hlistener' = [hlistener EXCEPT ![h] = k]
                        /\ hpc' = [hpc EXCEPT ![h] = "loop"]
                        /\ UNCHANGED <<hresult, hsnap>>
              [] balancingAlgorithm = "WeightedRoundRobin" ->
                   IF WRRPanics(listeners)
                   THEN /\ Finish(h, "panic: rand.Intn(0)")
                        /\ UNCHANGED <<hlistener, hsnap>>
                   ELSE /\ \E k \in WRRChoices(listeners) :
                               hlistener' = [hlistener EXCEPT ![h] = k]
                        /\ hpc' = [hpc EXCEPT ![h] = "loop"]
                        /\ UNCHANGED <<hresult, hsnap>>
              [] balancingAlgorithm = "RoundRobin" ->
                   /\ hsnap' = [hsnap EXCEPT ![h] = Len(listeners)]
                   /\ hpc' = [hpc EXCEPT ![h] = "rrRead"]
                   /\ UNCHANGED <<hlistener, hresult>>
    /\ UNCHANGED <<listeners, unhealthyListeners, stopped, balancingAlgorithm, rr_i,
                   crash, hreg, startVars, probes, stopVars, trace, probeOps>>

\* RoundRobin, i = (i + 1) % len(listeners): the read of i.  The closure takes
\* no lock, so other calls may run between its read, its write and its second
\* read of i.
RRRead(h) ==
    /\ crash = "none"
    /\ hpc[h] = "rrRead"
    /\ hreg' = [hreg EXCEPT ![h] = rr_i]
    /\ hpc' = [hpc EXCEPT ![h] = "rrWrite"]
    /\ UNCHANGED <<listeners, unhealthyListeners, stopped, balancingAlgorithm, rr_i,
                   crash, hsnap, hlistener, hresult, hattempts,
                   startVars, probes, stopVars, trace, probeOps>>

\* RoundRobin: the remainder is computed and written to i.
RRWrite(h) ==
    /\ crash = "none"
    /\ hpc[h] = "rrWrite"
    /\ IF RRPanics(hsnap[h])
       THEN /\ Finish(h, "panic: integer divide by zero")
            /\ hreg' = [hreg EXCEPT ![h] = 0]
            /\ UNCHANGED rr_i
       ELSE /\ rr_i' = RRNext(hreg[h], hsnap[h])
            /\ hreg' = [hreg EXCEPT ![h] = RRNext(hreg[h], hsnap[h])]
            /\ hpc' = [hpc EXCEPT ![h] = "rrIndex"]
            /\ UNCHANGED hresult
    /\ UNCHANGED <<listeners, unhealthyListeners, stopped, balancingAlgorithm,
                   crash, hsnap, hlistener, hattempts,
                   startVars, probes, stopVars, trace, probeOps>>

\* RoundRobin, return listeners[i]: i is unsynchronized, so the index is the
\* value in memory or the value this call just computed (kept in a register).
\* An index past the end of the slice panics.
RRIndex(h) ==
    /\ crash = "none"
    /\ hpc[h] = "rrIndex"
    /\ \E idx \in {rr_i, hreg[h]} :
          IF idx < hsnap[h]
          THEN /\ hlistener' = [hlistener EXCEPT ![h] = idx + 1]
               /\ hpc' = [hpc EXCEPT ![h] = "loop"]
               /\ UNCHANGED hresult
          ELSE /\ Finish(h, "panic: index out of range")
               /\ UNCHANGED hlistener
    /\ hsnap' = [hsnap EXCEPT ![h] = 0]
    /\ hreg' = [hreg EXCEPT ![h] = 0]
    /\ UNCHANGED <<listeners, unhealthyListeners, stopped, balancingAlgorithm, rr_i,
                   crash, hattempts, startVars, probes, stopVars, trace, probeOps>>

\* Server.handle going back to its selection loop when listener.handle fails.
ListenerHandleRetry(h) ==
    /\ crash = "none"
    /\ hpc[h] = "forward"
    /\ IF listeners[hlistener[h]].wg = NilWG
       THEN /\ hpc' = [hpc EXCEPT ![h] = "pick"]
            /\ UNCHANGED <<listeners, hresult>>
       ELSE /\ listeners' = [listeners EXCEPT ![hlistener[h]].wg.n = @ + 1]
            /\ hpc' = [hpc EXCEPT ![h] = "forwarding"]
            /\ UNCHANGED hresult
    /\ UNCHANGED <<unhealthyListeners, stopped, balancingAlgorithm, rr_i,
                   crash, hsnap, hreg, hlistener, hattempts,
                   startVars, probes, stopVars, trace, probeOps>>

\* listener.handle(w, r): Listener.handle begins with l.wg.Add(1), a nil
\* pointer dereference when wg is nil.  The rest of Listener.handle runs only
\* past that statement.
ListenerHandle(h) ==
    /\ crash = "none"
    /\ hpc[h] = "forward"
    /\ IF listeners[hlistener[h]].wg = NilWG
       THEN /\ Finish(h, "panic: nil WaitGroup in Listener.handle")
            /\ UNCHANGED listeners
       ELSE /\ listeners' = [listeners EXCEPT ![hlistener[h]].wg.n = @ + 1]
            /\ hpc' = [hpc EXCEPT ![h] = "forwarding"]
            /\ UNCHANGED hresult
    /\ UNCHANGED <<unhealthyListeners, stopped, balancingAlgorithm, rr_i,
                   crash, hsnap, hreg, hlistener, hattempts,
                   startVars, probes, stopVars, trace, probeOps>>

(***************************************************************************)
(* Server.Start and Server.healthcheck                                     *)
(***************************************************************************)
\* if s.stopped.Load() { return &ErrServerStopped{} }
StartCheck ==
    /\ crash = "none"
    /\ startPc = "idle"
    /\ IF stopped
       THEN /\ startPc' = "done"
            /\ startResult' = "ErrServerStopped"
       ELSE /\ startPc' = "loop"
            /\ UNCHANGED startResult
    /\ UNCHANGED <<listeners, unhealthyListeners, stopped, balancingAlgorithm, rr_i,
                   crash, hvars, probes, stopVars, trace, probeOps>>

\* for !s.stopped.Load() { s.healthcheck(); time.Sleep(...) }: one test of the
\* loop condition and, when it holds, one iteration: healthcheck starts a
\* goroutine for every listener of the slice and waits for none of them, then
\* the loop sleeps.  Goroutines already pending for a listener are not counted
\* twice.
StartLoop ==
    /\ crash = "none"
    /\ startPc = "loop"
    /\ IF stopped
       THEN /\ startPc' = "done"
            /\ startResult' = "nil"
            /\ UNCHANGED probes
       ELSE /\ probes' = probes \cup (1..Len(listeners))
            /\ UNCHANGED <<startPc, startResult>>
    /\ UNCHANGED <<listeners, unhealthyListeners, stopped, balancingAlgorithm, rr_i,
                   crash, hvars, stopVars, trace, probeOps>>

\* http.StatusOK.
StatusOK == 200

\* What one probe request can meet: http.NewRequest fails, httpClient.Do fails,
\* or the target answers with a status code.
ProbeOutcomes ==
    {[kind |-> "request error", status |-> 0], [kind |-> "transport error", status |-> 0]}
        \cup {[kind |-> "response", status |-> c] : c \in {StatusOK, 204, 500}}

\* Listener.healthcheck without its test of healthCheckConfig.
HealthcheckNoConfigTest(l, outcome) ==
    IF outcome.kind = "request error" THEN "ERROR"
    ELSE IF outcome.kind = "transport error" THEN "ERROR"
    ELSE IF outcome.status # StatusOK THEN "ERROR"
    ELSE "OK"

\* Listener.healthcheck: the status of the response it returns (err is non-nil
\* exactly when the status is "ERROR").
healthcheck(l, outcome) ==
    IF ~l.healthCheckConfig THEN "OK"
    ELSE IF outcome.kind = "request error" THEN "ERROR"
    ELSE IF outcome.kind = "transport error" THEN "ERROR"
    ELSE IF outcome.status # StatusOK THEN "ERROR"
    ELSE "OK"

\* Listener.healthcheck: what response.err # nil can be.
HealthcheckErrs(l) == {healthcheck(l, outcome) = "ERROR" : outcome \in ProbeOutcomes}

\* The goroutine healthcheck starts for listener k.  The map assignment of a
\* failed probe panics on the nil map; nothing recovers a panic of this
\* goroutine, so the process ends.  The closure reads the loop variable
\* listener; where a build shares that variable between iterations the
\* goroutine may probe a later listener of the same cycle, whose own goroutine
\* is in probes as well, so the states reached are the same.
ProbeTask(k) ==
    /\ crash = "none"
    /\ k \in probes
    /\ probes' = probes \ {k}
    /\ \E err \in HealthcheckErrs(listeners[k]) :
          IF err
          THEN IF MapAssignPanics(unhealthyListeners)
               THEN /\ crash' = "assignment to entry in nil map"
                    /\ UNCHANGED unhealthyListeners
               ELSE /\ unhealthyListeners' = MapAssign(unhealthyListeners, listeners[k].id)
                    /\ UNCHANGED crash
          ELSE /\ unhealthyListeners' = MapDelete(unhealthyListeners, listeners[k].id)
               /\ UNCHANGED crash
    /\ UNCHANGED <<listeners, stopped, balancingAlgorithm, rr_i,
                   hvars, startVars, stopVars, trace, probeOps>>

(***************************************************************************)
(* Server.Stop, one caller s.                                              *)
(***************************************************************************)
\* A call of Stop that has returned to its caller.
StopReturned(s) == stopPc[s] = "done" /\ stopResult[s] \in {"nil", "ErrServerStopped"}

\* Server.Stop without its test of the stopped flag.
StopCheckNoGuard(s) ==
    /\ crash = "none"
    /\ stopPc[s] = "idle"
    /\ stopLate' = [stopLate EXCEPT ![s] = \E t \in Stoppers : StopReturned(t)]
    /\ stopPc' = [stopPc EXCEPT ![s] = "store"]
    /\ UNCHANGED <<listeners, unhealthyListeners, stopped, balancingAlgorithm, rr_i,
                   crash, hvars, startVars, probes, stopResult, trace, probeOps>>

\* if s.stopped.Load() { return &ErrServerStopped{} }
StopCheck(s) ==
    /\ crash = "none"
    /\ stopPc[s] = "idle"
    /\ stopLate' = [stopLate EXCEPT ![s] = \E t \in Stoppers : StopReturned(t)]
    /\ IF stopped
       THEN /\ stopPc' = [stopPc EXCEPT ![s] = "done"]
            /\ stopResult' = [stopResult EXCEPT ![s] = "ErrServerStopped"]
       ELSE /\ stopPc' = [stopPc EXCEPT ![s] = "store"]
            /\ UNCHANGED stopResult
    /\ UNCHANGED <<listeners, unhealthyListeners, stopped, balancingAlgorithm, rr_i,
                   crash, hvars, startVars, probes, trace, probeOps>>

\* Server.Stop storing the negation of the flag it finds.
StopStoreToggle(s) ==
    /\ crash = "none"
    /\ stopPc[s] = "store"
    /\ stopped' = ~stopped
    /\ stopPc' = [stopPc EXCEPT ![s] = "wait"]
    /\ UNCHANGED <<listeners, unhealthyListeners, balancingAlgorithm, rr_i,
                   crash, hvars, startVars, probes, stopResult, stopLate, trace, probeOps>>

\* s.stopped.Store(true)
StopStore(s) ==
    /\ crash = "none"
    /\ stopPc[s] = "store"
    /\ stopped' = TRUE
    /\ stopPc' = [stopPc EXCEPT ![s] = "wait"]
    /\ UNCHANGED <<listeners, unhealthyListeners, balancingAlgorithm, rr_i,
                   crash, hvars, startVars, probes, stopResult, stopLate, trace, probeOps>>

\* for _, listener := range s.listeners { listener.wg.Wait() }; return nil.
\* Wait on a nil *sync.WaitGroup is a nil pointer dereference, and nothing
\* recovers a panic of Stop's caller.  On allocated WaitGroups the loop ends
\* once every counter is zero.
StopWait(s) ==
    /\ crash = "none"
    /\ stopPc[s] = "wait"
    /\ IF \E k \in 1..Len(listeners) : listeners[k].wg = NilWG
       THEN /\ crash' = "nil WaitGroup in Server.Stop"
            /\ stopPc' = [stopPc EXCEPT ![s] = "done"]
            /\ stopResult' = [stopResult EXCEPT ![s] = "panic"]
       ELSE /\ \A k \in 1..Len(listeners) : listeners[k].wg.n = 0
            /\ stopPc' = [stopPc EXCEPT ![s] = "done"]
            /\ stopResult' = [stopResult EXCEPT ![s] = "nil"]
            /\ UNCHANGED crash
    /\ UNCHANGED <<listeners, unhealthyListeners, stopped, balancingAlgorithm, rr_i,
                   hvars, startVars, probes, stopLate, trace, probeOps>>

(***************************************************************************)
(* The concurrent specification.                                           *)
(***************************************************************************)
Next ==
    \/ \E cfg \in AddConfigs : AddListener(cfg)
    \/ \E h \in Handlers : HandleStart(h)
    \/ \E h \in Handlers : HandleLoop(h)
    \/ \E h \in Handlers : HandlePick(h)
    \/ \E h \in Handlers : RRRead(h)
    \/ \E h \in Handlers : RRWrite(h)
    \/ \E h \in Handlers : RRIndex(h)
    \/ \E h \in Handlers : ListenerHandle(h)
    \/ StartCheck
    \/ StartLoop
    \/ \E k \in 1..Len(listeners) : ProbeTask(k)
    \/ \E s \in Stoppers : StopCheck(s)
    \/ \E s \in Stoppers : StopStore(s)
    \/ \E s \in Stoppers : StopWait(s)

Spec == Init /\ [][Next]_vars

(***************************************************************************)
(* The same goroutines with every statement on unhealthyListeners taking   *)
(* two steps, its beginning and its end, as a map operation is not atomic. *)
(* probeOps holds the probe goroutines inside their assignment or delete;  *)
(* a request inside the map read of its loop condition is at "reading".    *)
(***************************************************************************)
\* The loop condition with listener == nil: the || stops before the map read.
HandleLoopNil(h) == hlistener[h] = 0 /\ HandleLoop(h)

\* s.unhealthyListeners[listener.id.String()] in the loop condition begins.
HandleReadBegin(h) ==
    /\ crash = "none"
    /\ hpc[h] = "loop"
    /\ hlistener[h] # 0
    /\ hpc' = [hpc EXCEPT ![h] = "reading"]
    /\ UNCHANGED <<listeners, unhealthyListeners, stopped, balancingAlgorithm, rr_i,
                   crash, hsnap, hreg, hlistener, hresult, hattempts,
                   startVars, probes, probeOps, stopVars, trace>>

\* The map read ends and the loop condition is decided.
HandleReadEnd(h) ==
    /\ crash = "none"
    /\ hpc[h] = "reading"
    /\ hpc' = [hpc EXCEPT ![h] = IF LoopAgain(h) THEN "pick" ELSE "forward"]
    /\ UNCHANGED <<listeners, unhealthyListeners, stopped, balancingAlgorithm, rr_i,
                   crash, hsnap, hreg, hlistener, hresult, hattempts,
                   startVars, probes, probeOps, stopVars, trace>>

\* The requests inside the map read.
Readers == {h \in Handlers : hpc[h] = "reading"}

\* The probe goroutine of listener k gets its response and begins its map
\* statement: the assignment when response.err # nil, the delete otherwise.
\* An assignment to a nil map panics on entry, before it touches the map.
ProbeBegin(k) ==
    /\ crash = "none"
    /\ k \in probes
    /\ probes' = probes \ {k}
    /\ \E err \in HealthcheckErrs(listeners[k]) :
          IF err /\ MapAssignPanics(unhealthyListeners)
          THEN /\ crash' = "assignment to entry in nil map"
               /\ UNCHANGED probeOps
          ELSE /\ probeOps' = probeOps \cup {<<k, IF err THEN "assign" ELSE "delete">>}
               /\ UNCHANGED crash
    /\ UNCHANGED <<listeners, unhealthyListeners, stopped, balancingAlgorithm, rr_i,
                   hvars, startVars, stopVars, trace>>

\* The map statement of a probe goroutine ends.
ProbeEnd(o) ==
    /\ crash = "none"
    /\ o \in probeOps
    /\ probeOps' = probeOps \ {o}
    /\ unhealthyListeners' = IF o[2] = "assign"
                             THEN MapAssign(unhealthyListeners, listeners[o[1]].id)
                             ELSE MapDelete(unhealthyListeners, listeners[o[1]].id)
    /\ UNCHANGED <<listeners, stopped, balancingAlgorithm, rr_i, crash,
                   hvars, startVars, probes, stopVars, trace>>

RaceNext ==
    \/ \E cfg \in AddConfigs : AddListener(cfg)
    \/ \E h \in Handlers : HandleStart(h)
    \/ \E h \in Handlers : HandleLoopNil(h)
    \/ \E h \in Handlers : HandleReadBegin(h)
    \/ \E h \in Handlers : HandleReadEnd(h)
    \/ \E h \in Handlers : HandlePick(h)
    \/ \E h \in Handlers : RRRead(h)
    \/ \E h \in Handlers : RRWrite(h)
    \/ \E h \in Handlers : RRIndex(h)
    \/ \E h \in Handlers : ListenerHandle(h)
    \/ StartCheck
    \/ StartLoop
    \/ \E k \in 1..Len(listeners) : ProbeBegin(k)
    \/ \E o \in probeOps : ProbeEnd(o)
    \/ \E s \in Stoppers : StopCheck(s)
    \/ \E s \in Stoppers : StopStore(s)
    \/ \E s \in Stoppers : StopWait(s)

RaceSpec == Init /\ [][RaceNext]_vars

(***************************************************************************)
(* The sequential specification: one goroutine calls pickListener of one   *)
(* algorithm on a fixed slice, call after call, nothing else running.      *)
(* trace holds what each call returned: a position, 0 for pickListener's   *)
(* error, -1 for a panic.  Random and WeightedRoundRobin keep no state     *)
(* between calls, so one call of them from each slice shows every call.    *)
(***************************************************************************)
\* The weights given to WithWeight.
WeightInputs == {-1, 0, 2, 101}

SeqConfigs == {Config(FALSE, 0, FALSE)} \cup {Config(TRUE, w, FALSE) : w \in WeightInputs}

RECURSIVE ListsOf(_)
\* Every slice of n listeners built by NewListener, ids in order of creation.
ListsOf(n) ==
    IF n = 0 THEN {<<>>}
    ELSE {Append(ls, NewListener(n, cfg)) : ls \in ListsOf(n - 1), cfg \in SeqConfigs}

\* NewServer, then AddListener for each listener of the slice.
SeqInit ==
    /\ \E b \in Algorithms : NewServer(b)
    /\ Idle
    /\ \E n \in 0..MaxSeqListeners : \E ls \in ListsOf(n) : listeners = ls

SeqUnchanged ==
    UNCHANGED <<listeners, unhealthyListeners, stopped, balancingAlgorithm, crash,
                hvars, startVars, probes, probeOps, stopVars>>

SeqRandom ==
    /\ balancingAlgorithm = "Random"
    /\ trace = <<>>
    /\ IF PickListenerFails(listeners) THEN trace' = <<0>>
       ELSE IF RandomPanics(listeners) THEN trace' = <<-1>>
       ELSE \E k \in RandomChoices(listeners) : trace' = <<k>>
    /\ UNCHANGED rr_i
    /\ SeqUnchanged

SeqWeightedRoundRobin ==
    /\ balancingAlgorithm = "WeightedRoundRobin"
    /\ trace = <<>>
    /\ IF PickListenerFails(listeners) THEN trace' = <<0>>
       ELSE IF WRRPanics(listeners) THEN trace' = <<-1>>
       ELSE \E k \in WRRChoices(listeners) : trace' = <<k>>
    /\ UNCHANGED rr_i
    /\ SeqUnchanged

SeqRoundRobin ==
    /\ balancingAlgorithm = "RoundRobin"
    /\ Len(trace) < MaxCalls
    /\ IF PickListenerFails(listeners)
       THEN /\ trace' = Append(trace, 0)
            /\ UNCHANGED rr_i
       ELSE IF RRPanics(Len(listeners))
       THEN /\ trace' = Append(trace, -1)
            /\ UNCHANGED rr_i
       ELSE /\ rr_i' = RRNext(rr_i, Len(listeners))
            /\ trace' = Append(trace, IF rr_i' < Len(listeners) THEN rr_i' + 1 ELSE -1)
    /\ SeqUnchanged

SeqNext == SeqRandom \/ SeqWeightedRoundRobin \/ SeqRoundRobin

SeqSpec == SeqInit /\ [][SeqNext]_vars

(***************************************************************************)
(* Properties.                                                             *)
(***************************************************************************)
\* The map NewServer leaves nil stays nil: no statement assigns the field, and
\* an assignment to one of its entries panics.
UnhealthyStaysNil == unhealthyListeners = NilMap

\* The pool state a call of Stop or handle could change.
poolVars == <<listeners, unhealthyListeners, stopped, balancingAlgorithm, rr_i, crash>>

\* The in-flight counter of listener k: the count of its WaitGroup.
InFlight(ls, k) == IF ls[k].wg.alloc THEN ls[k].wg.n ELSE 0

\* C3: a first call of Stop returns once every backend's in-flight counter is
\* zero, without a panic, also on a pool whose backends never handled a
\* request: no call of Stop ends other than by returning nil or
\* ErrServerStopped.
C3_StopReturns ==
    \A s \in Stoppers : stopPc[s] = "done" => stopResult[s] \in {"nil", "ErrServerStopped"}

\* C4: a call of Stop that begins after an earlier call of Stop has returned
\* goes from its test of the flag straight to returning ErrServerStopped: it
\* never stores the flag or waits on a WaitGroup, and its step leaves the
\* pool state unchanged.
C4_SecondStopRejected ==
    /\ [](\A s \in Stoppers :
            stopLate[s] => (stopPc[s] = "done" /\ stopResult[s] = "ErrServerStopped"))
    /\ [][\A s \in Stoppers :
            (stopLate'[s] /\ ~stopLate[s]) => UNCHANGED poolVars]_vars

\* C4 happens: a second Stop was rejected on a pool that holds a listener (a
\* wait on its nil WaitGroup would have ended the process).
C4_Witness ==
    \E s \in Stoppers :
        /\ stopLate[s]
        /\ stopResult[s] = "ErrServerStopped"
        /\ Len(listeners) > 0
        /\ crash = "none"

\* C5: a request whose handler starts with the stopped flag set ends at once
\* with the service-unavailable answer: pickListener is not called (the
\* round-robin i keeps its value), the unhealthy map is not read and no
\* listener is handed the request.
C5_StoppedRejects ==
    [][\A h \in Handlers :
         (stopped /\ hpc[h] = "idle" /\ hpc'[h] # "idle") =>
             /\ hpc'[h] = "done"
             /\ hresult'[h] = "unavailable: server is stopped"
             /\ hattempts'[h] = 0
             /\ hlistener'[h] = 0
             /\ UNCHANGED poolVars]_vars

\* C5 happens: a request was rejected because of the flag although the pool
\* holds a listener a round-robin call would have returned.
C5_Witness ==
    \E h \in Handlers :
        /\ hresult[h] = "unavailable: server is stopped"
        /\ balancingAlgorithm = "RoundRobin"
        /\ Len(listeners) > 0

\* C6: Listener.handle increments the in-flight counter of its listener on
\* entry: the step that enters it leaves the request in progress on the
\* listener with the counter one higher.
C6_ForwardCounted ==
    [][\A h \in Handlers :
         (hpc[h] = "forward" /\ hpc'[h] # "forward") =>
             /\ hpc'[h] = "forwarding"
             /\ InFlight(listeners', hlistener[h]) = InFlight(listeners, hlistener[h]) + 1]_vars

\* C7: sequential calls of a fresh RoundRobin on a fixed slice of n listeners
\* return positions of the slice, each call the position after the one
\* before it (the first after the last); any n calls in a row return every
\* listener once, and six calls on three listeners return each one twice.
C7_RoundRobinCycles ==
    (balancingAlgorithm = "RoundRobin" /\ Len(listeners) >= 1) =>
        LET n == Len(listeners) IN
        /\ \A k \in 1..Len(trace) : trace[k] \in 1..n
        /\ \A k \in 1..(Len(trace) - 1) : trace[k + 1] = (trace[k] % n) + 1
        /\ \A a \in 1..(Len(trace) - n + 1) : {trace[j] : j \in a..(a + n - 1)} = 1..n
        /\ (n = 3 /\ Len(trace) = 6) =>
               \A p \in 1..3 : Cardinality({k \in 1..6 : trace[k] = p}) = 2

\* C7 happens: six calls were made on a slice of three listeners.
C7_Witness ==
    /\ balancingAlgorithm = "RoundRobin"
    /\ Len(listeners) = 3
    /\ Len(trace) = 6

\* C8: under any interleaving of concurrent round-robin calls and of
\* AddListener, no call indexes the slice it was given out of range.
C8_IndexInRange ==
    \A h \in Handlers : hresult[h] # "panic: index out of range"

\* C9: with an empty slice pickListener fails before the algorithm runs, and
\* the handler answers service-unavailable without handing the request to a
\* listener; with a non-empty slice the listener returned is one of the
\* slice that was passed.
C9_PickWithinList ==
    [][\A h \in Handlers :
         /\ (hpc[h] = "pick" /\ hpc'[h] # "pick" /\ Len(listeners) = 0) =>
                /\ hpc'[h] = "done"
                /\ hresult'[h] = "unavailable: no listeners available"
                /\ hlistener'[h] = hlistener[h]
                /\ rr_i' = rr_i
         /\ (hpc[h] \in {"pick", "rrIndex"} /\ hpc'[h] = "loop") =>
                hlistener'[h] \in 1..(IF hpc[h] = "rrIndex" THEN hsnap[h] ELSE Len(listeners))
      ]_vars

\* C9 happens: one request met the empty slice, a later one was given a
\* listener.
C9_Witness ==
    \E h1, h2 \in Handlers :
        /\ hresult[h1] = "unavailable: no listeners available"
        /\ hlistener[h2] >= 1

\* How many times x occurs in seq.
Count(seq, x) == Cardinality({k \in 1..Len(seq) : seq[k] = x})

\* C10: for a slice with a positive weight, WeightedRoundRobin's flatSlice
\* holds every listener as many times as its weight, so the draw can return
\* exactly the listeners of positive weight, and what a call returned has a
\* positive weight.
C10_WeightedDraw ==
    (/\ balancingAlgorithm = "WeightedRoundRobin"
     /\ \E k \in 1..Len(listeners) : listeners[k].weight > 0) =>
        /\ \A k \in 1..Len(listeners) : Count(FlatSlice(listeners), k) = listeners[k].weight
        /\ WRRChoices(listeners) = {k \in 1..Len(listeners) : listeners[k].weight > 0}
        /\ \A j \in 1..Len(trace) :
               trace[j] \in 1..Len(listeners) /\ listeners[trace[j]].weight > 0

\* C10 happens: a call returned a listener from a slice that also holds a
\* listener of weight 0 and one of the greatest weight.
C10_Witness ==
    /\ balancingAlgorithm = "WeightedRoundRobin"
    /\ Len(trace) = 1
    /\ trace[1] >= 1
    /\ \E k \in 1..Len(listeners) : listeners[k].weight = 0
    /\ \E k \in 1..Len(listeners) : listeners[k].weight = MaxWeight

\* C11: WeightedRoundRobin on a non-empty slice whose listeners all have
\* weight 0 fails with pickListener's error; it does not panic on the empty
\* flatSlice.
C11_AllZeroWeightsFail ==
    (/\ balancingAlgorithm = "WeightedRoundRobin"
     /\ Len(listeners) >= 1
     /\ \A k \in 1..Len(listeners) : listeners[k].weight = 0) =>
        \A j \in 1..Len(trace) : trace[j] = 0

\* C12: on a newly created pool a failing probe inserts the backend's
\* identifier into the unhealthy set: once a probe task has executed its
\* insert statement, the set holds the identifier of a backend.
C12_FailedProbeInserts ==
    crash = "assignment to entry in nil map" =>
        \E k \in 1..Len(listeners) : MapRead(unhealthyListeners, listeners[k].id)

\* C13: no two accesses to the unhealthy set overlap when one of them is a
\* write: at most one probe goroutine is inside its assignment or delete, and
\* no request is inside the map read of its loop condition meanwhile.
C13_MapAccessExclusive ==
    /\ Cardinality(probeOps) <= 1
    /\ probeOps # {} => Readers = {}

\* The lifecycle of the pool, read off the stopped flag, the probe loop and
\* the calls of Stop: 0 Created, 1 Running (the probe loop is running),
\* 2 Stopping (the flag is set), 3 Stopped (a call of Stop has drained and
\* returned nil).
Phase ==
    IF stopped
    THEN IF \E s \in Stoppers : stopPc[s] = "done" /\ stopResult[s] = "nil" THEN 3 ELSE 2
    ELSE IF startPc = "loop" THEN 1 ELSE 0

\* C15: the lifecycle only moves forward through Created, Running, Stopping,
\* Stopped: the stopped flag, once set, is never cleared, and no step takes
\* the pool back to an earlier phase.
C15_LifecycleForward ==
    [][(stopped => stopped') /\ Phase' >= Phase]_vars

C15_Witness ==
    /\ startResult = "nil"
    /\ Phase = 3

\* C16: Start does not return nil while the pool is not stopped, and once
\* Stop has set the flag Start eventually returns: while its loop has not
\* returned, the step that tests the flag and returns stays possible.
C16_StartReturnsAfterStop ==
    /\ (startPc = "done" /\ startResult = "nil") => stopped
    /\ (stopped /\ startPc = "loop") => ENABLED StartLoop

\* C17: a probe of a backend with no probe configuration always reports
\* healthy, and no failed probe reaches the insert while the pool holds only
\* such backends; a probe of a configured backend reports healthy exactly
\* when its request completes with status 200.
C17_ProbeVerdict ==
    /\ \A k \in 1..Len(listeners) : \A outcome \in ProbeOutcomes :
           healthcheck(listeners[k], outcome) = "OK" <=>
               \/ ~listeners[k].healthCheckConfig
               \/ outcome.kind = "response" /\ outcome.status = 200
    /\ crash = "assignment to entry in nil map" =>
           \E k \in 1..Len(listeners) : listeners[k].healthCheckConfig

\* A cycle probed a backend without configuration and a configured one: the
\* first reported healthy, the second failed and reached the insert.
C17_Witness ==
    /\ Len(listeners) = 2
    /\ ~listeners[1].healthCheckConfig
    /\ listeners[2].healthCheckConfig
    /\ probes = {}
    /\ crash = "assignment to entry in nil map"

\* C18: a dispatch calls listener.handle at most once, on the candidate its
\* selection loop accepted last: the call leaves that candidate unchanged,
\* and after it the request never goes back to selecting or forwarding, also
\* when the call fails.
C18_ForwardOnce ==
    [][\A h \in Handlers :
          /\ hpc[h] = "forward" =>
                /\ hpc'[h] \in {"forward", "forwarding", "done"}
                /\ hlistener'[h] = hlistener[h]
          /\ (hpc'[h] = "forward" /\ hpc[h] # "forward") =>
                hlistener'[h] \in 1..Len(listeners)
          /\ hpc[h] \in {"forwarding", "done"} =>
                /\ hpc'[h] \in {"forwarding", "done"}
                /\ hlistener'[h] = hlistener[h]]_vars

\* A dispatch whose one call of listener.handle failed.
C18_Witness ==
    \E h \in Handlers :
        /\ hpc[h] = "done"
        /\ hlistener[h] >= 1
        /\ hresult[h] = "panic: nil WaitGroup in Listener.handle"

\* C19: once a call of Stop has returned nil, no backend has a forward in
\* progress and no request begins one (calls listener.handle) afterwards.
C19_NoForwardAfterStop ==
    [][(\E s \in Stoppers : stopPc[s] = "done" /\ stopResult[s] = "nil") =>
          \A h \in Handlers :
              /\ hpc[h] # "forwarding"
              /\ ~(hpc[h] = "forward" /\ hpc'[h] # "forward")]_vars

\* C20: of the calls of Stop on a pool that was not yet stopped, at most one
\* returns nil; every other one returns the already-stopped error.
C20_OneStopSucceeds ==
    Cardinality({s \in Stoppers : stopPc[s] = "done" /\ stopResult[s] = "nil"}) <= 1

====
